---------------------------- MODULE Spec2Model ----------------------------
(***************************************************************************)
(* A model of src/mumpspy.py: the version registry (mumps_c_fields,        *)
(* mumps_c_updates), the layout builder (version_to_int,                   *)
(* get_mumps_c_fields) and the solver session (class MumpsSolver).         *)
(*                                                                         *)
(* Python strings are sequences of character codes, so that parsing,       *)
(* splitting and the string order used by list.sort() are computed and     *)
(* not assumed.  '.' is 46 and the digits '0'..'9' are 48..57.             *)
(***************************************************************************)
EXTENDS Integers, Sequences, FiniteSets, TLC

VARIABLES
    \* ---- version_to_int applied to two version strings
    va, vb, vout,
    \* ---- get_mumps_c_fields applied to a registry and a version
    reg, target, lout,
    \* ---- one MumpsSolver object
    phase,      \* "new": not yet created; "alive": constructed and referenced;
                \* "failed": __init__ raised, the object awaits collection;
                \* "dead": collected, __del__ has run
    struct,     \* self.struct: None, the probe structure or the full one
    data,       \* self._data
    schur_rhs,  \* self._schur_rhs
    \* ---- what an observer of the object sees
    trace,      \* the foreign calls (and the read of the scratch buffer, and
                \* the argument) of the most recent operation, in order
    outcome,    \* the most recent operation and how it ended
    nInit,      \* per instance, the job -1 calls issued so far
    nRelease,   \* per instance, the job -2 calls issued so far
    ncalls,     \* the foreign calls issued so far
    nalloc,     \* the Schur buffers allocated so far
    history,    \* whether __init__ raised, whether a job raised, whether a
                \* get_schur returned with both statuses non-negative
    streak,     \* the current run of consecutive teardowns
    rank,       \* self.rank (-1: the attribute is not set)
    \* ---- the callers of get_mumps_c_fields and the layouts they hold
    held,
    \* ---- the external library behind one scripted run, and the script
    run

versionVars == <<va, vb, vout>>
layoutVars == <<reg, target, lout, held>>
sessionVars == <<phase, struct, data, schur_rhs, trace, outcome, nInit,
                 nRelease, ncalls, nalloc, history, streak, rank>>
vars == <<va, vb, vout, reg, target, lout, phase, struct, data, schur_rhs,
          trace, outcome, nInit, nRelease, ncalls, nalloc, history, streak,
          rank, held, run>>

-----------------------------------------------------------------------------
(* Character codes and strings *)

\* ord('.')
Dot == 46
\* ord('9')
Nine == 57

\* A decimal digit '0'..'9' (what \d matches and int() reads).
IsDigit(c) == c >= 48 /\ c <= Nine

\* The decimal numeral of a natural number: how the inputs of the model are
\* written down as strings.
RECURSIVE Numeral(_)
Numeral(n) == IF n < 10 THEN <<48 + n>>
              ELSE Append(Numeral(n \div 10), 48 + (n % 10))

\* '.'.join(parts)
RECURSIVE join(_)
join(parts) == IF Len(parts) = 0 THEN <<>>
               ELSE IF Len(parts) = 1 THEN parts[1]
               ELSE parts[1] \o <<Dot>> \o join(Tail(parts))

\* The version string "major.minor.patch" of three numbers.
VersionString(major, minor, patch) ==
    join(<<Numeral(major), Numeral(minor), Numeral(patch)>>)

\* v.split('.')
RECURSIVE split(_)
split(s) ==
    IF \A i \in 1..Len(s) : s[i] # Dot THEN <<s>>
    ELSE LET i == CHOOSE k \in 1..Len(s) :
                      s[k] = Dot /\ \A j \in 1..(k - 1) : s[j] # Dot
         IN  <<SubSeq(s, 1, i - 1)>> \o split(SubSeq(s, i + 1, Len(s)))

\* int(vk) of a string of decimal digits
RECURSIVE int(_)
int(s) == IF Len(s) = 0 THEN 0
          ELSE 10 * int(SubSeq(s, 1, Len(s) - 1)) + (s[Len(s)] - 48)

\* seq[::-1]
RECURSIVE reversed(_)
reversed(s) == IF Len(s) = 0 THEN <<>>
               ELSE Append(reversed(Tail(s)), Head(s))

\* A planted fault: two digits per component instead of three.
RECURSIVE weight_two_digits(_)
weight_two_digits(k) == IF k = 0 THEN 1 ELSE 100 * weight_two_digits(k - 1)

\* 10**(3*k)
RECURSIVE weight(_)
weight(k) == IF k = 0 THEN 1 ELSE 1000 * weight(k - 1)

\* nm.sum([...]) of a list of integers
RECURSIVE sum(_)
sum(s) == IF Len(s) = 0 THEN 0 ELSE Head(s) + sum(Tail(s))

\* version_to_int(v):
\*   nm.sum([int(vk) * 10**(3*k) for k, vk in enumerate(v.split('.')[::-1])])
version_to_int(v) ==
    LET parts == reversed(split(v))
    IN  sum([k \in 1..Len(parts) |-> int(parts[k]) * weight(k - 1)])

\* '4.10.0'
MIN_SUPPORTED_VERSION == <<52, 46, 49, 48, 46, 48>>
\* '5.7.999'
MAX_SUPPORTED_VERSION == <<53, 46, 55, 46, 57, 57, 57>>


-----------------------------------------------------------------------------
(* The version registry: the base layout and its version-keyed updates *)

\* ('replace', name, type)
Replace(name, type) ==
    [op |-> "replace", name |-> name, type |-> type, new |-> <<>>,
     is_list |-> FALSE]
\* ('delete', name)
Delete(name) ==
    [op |-> "delete", name |-> name, type |-> "", new |-> <<>>,
     is_list |-> FALSE]
\* ('new_after', name, (newname, type))
NewAfter(name, fld) ==
    [op |-> "new_after", name |-> name, type |-> "", new |-> <<fld>>,
     is_list |-> FALSE]
\* ('new_after', name, [(newname, type), ...])
NewAfterList(name, flds) ==
    [op |-> "new_after", name |-> name, type |-> "", new |-> flds,
     is_list |-> TRUE]

\* mumps_c_fields: the base layout (MUMPS 4.10.0), as (name, type) pairs
mumps_c_fields == <<
    <<"sym", "mumps_int">>,
    <<"par", "mumps_int">>,
    <<"job", "mumps_int">>,
    <<"comm_fortran", "mumps_int">>,
    <<"icntl", "mumps_int*40">>,
    <<"cntl", "mumps_real*15">>,
    <<"n", "mumps_int">>,
    <<"nz_alloc", "mumps_int">>,
    <<"nz", "mumps_int">>,
    <<"irn", "mumps_pint">>,
    <<"jcn", "mumps_pint">>,
    <<"a", "mumps_pcomplex">>,
    <<"nz_loc", "mumps_int">>,
    <<"irn_loc", "mumps_pint">>,
    <<"jcn_loc", "mumps_pint">>,
    <<"a_loc", "mumps_pcomplex">>,
    <<"nelt", "mumps_int">>,
    <<"eltptr", "mumps_pint">>,
    <<"eltvar", "mumps_pint">>,
    <<"a_elt", "mumps_pcomplex">>,
    <<"perm_in", "mumps_pint">>,
    <<"sym_perm", "mumps_pint">>,
    <<"uns_perm", "mumps_pint">>,
    <<"colsca", "mumps_preal">>,
    <<"rowsca", "mumps_preal">>,
    <<"rhs", "mumps_pcomplex">>,
    <<"redrhs", "mumps_pcomplex">>,
    <<"rhs_sparse", "mumps_pcomplex">>,
    <<"sol_loc", "mumps_pcomplex">>,
    <<"irhs_sparse", "mumps_pint">>,
    <<"irhs_ptr", "mumps_pint">>,
    <<"isol_loc", "mumps_pint">>,
    <<"nrhs", "mumps_int">>,
    <<"lrhs", "mumps_int">>,
    <<"lredrhs", "mumps_int">>,
    <<"nz_rhs", "mumps_int">>,
    <<"lsol_loc", "mumps_int">>,
    <<"schur_mloc", "mumps_int">>,
    <<"schur_nloc", "mumps_int">>,
    <<"schur_lld", "mumps_int">>,
    <<"mblock", "mumps_int">>,
    <<"nblock", "mumps_int">>,
    <<"nprow", "mumps_int">>,
    <<"npcol", "mumps_int">>,
    <<"info", "mumps_int*40">>,
    <<"infog", "mumps_int*40">>,
    <<"rinfo", "mumps_real*40">>,
    <<"rinfog", "mumps_real*40">>,
    <<"deficiency", "mumps_int">>,
    <<"pivnul_list", "mumps_pint">>,
    <<"mapping", "mumps_pint">>,
    <<"size_schur", "mumps_int">>,
    <<"listvar_schur", "mumps_pint">>,
    <<"schur", "mumps_pcomplex">>,
    <<"instance_number", "mumps_int">>,
    <<"wk_user", "mumps_pcomplex">>,
    <<"version_number", "c_char*16">>,
    <<"ooc_tmpdir", "c_char*256">>,
    <<"ooc_prefix", "c_char*64">>,
    <<"write_problem", "c_char*256">>,
    <<"lwk_user", "mumps_int">>
>>

\* mumps_c_updates['5.0.0']
updates_5_0_0 == <<
    NewAfter("icntl", <<"keep", "mumps_int*500">>),
    NewAfterList("cntl", <<<<"dkeep", "mumps_real*130">>, <<"keep8", "mumps_int8*150">>>>),
    NewAfterList("rowsca", <<<<"colsca_from_mumps", "mumps_int">>, <<"rowsca_from_mumps", "mumps_int">>>>),
    Replace("version_number", "c_char*27")
>>

\* mumps_c_updates['5.1.0']
updates_5_1_0 == <<
    Replace("dkeep", "mumps_real*230"),
    NewAfter("nz", <<"nnz", "mumps_int8">>),
    NewAfter("nz_loc", <<"nnz_loc", "mumps_int8">>),
    Replace("version_number", "c_char*32"),
    NewAfterList("lwk_user", <<<<"save_dir", "c_char*256">>, <<"save_prefix", "c_char*256">>>>)
>>

\* mumps_c_updates['5.2.0']
updates_5_2_0 == <<
    Replace("icntl", "mumps_int*60"),
    NewAfter("sol_loc", <<"rhs_loc", "mumps_pcomplex">>),
    NewAfter("isol_loc", <<"irhs_loc", "mumps_pint">>),
    NewAfterList("lsol_loc", <<<<"nloc_rhs", "mumps_int">>, <<"lrhs_loc", "mumps_int">>>>),
    Replace("info", "mumps_int*80"),
    Replace("infog", "mumps_int*80"),
    NewAfter("save_prefix", <<"metis_options", "mumps_int*40">>)
>>

\* mumps_c_updates['5.3.0']
updates_5_3_0 == <<
    NewAfter("n", <<"nblk", "mumps_int">>),
    NewAfterList("a_elt", <<<<"blkptr", "mumps_pint">>, <<"blkvar", "mumps_pint">>>>)
>>

\* A planted fault: the 5.7.0 group without its ('delete', 'instance_number').
updates_5_7_0_without_delete == <<
    NewAfter("npcol", <<"ld_rhsintr", "mumps_int">>),
    NewAfter("mapping", <<"singular_values", "mumps_preal">>),
    Replace("ooc_tmpdir", "c_char*1024"),
    Replace("ooc_prefix", "c_char*256"),
    Replace("write_problem", "c_char*1024"),
    Replace("save_dir", "c_char*1024"),
    NewAfter("metis_options", <<"instance_number", "mumps_int">>)
>>

\* mumps_c_updates['5.7.0']
updates_5_7_0 == <<
    NewAfter("npcol", <<"ld_rhsintr", "mumps_int">>),
    NewAfter("mapping", <<"singular_values", "mumps_preal">>),
    Delete("instance_number"),
    Replace("ooc_tmpdir", "c_char*1024"),
    Replace("ooc_prefix", "c_char*256"),
    Replace("write_problem", "c_char*1024"),
    Replace("save_dir", "c_char*1024"),
    NewAfter("metis_options", <<"instance_number", "mumps_int">>)
>>

\* mumps_c_updates, a dict: its (key, value) items in declaration order.
mumps_c_updates == <<
    <<VersionString(5, 0, 0), updates_5_0_0>>,
    <<VersionString(5, 1, 0), updates_5_1_0>>,
    <<VersionString(5, 2, 0), updates_5_2_0>>,
    <<VersionString(5, 3, 0), updates_5_3_0>>,
    <<VersionString(5, 7, 0), updates_5_7_0>>
>>

\* The module globals read by get_mumps_c_fields.
DeclaredRegistry == [fields |-> mumps_c_fields, updates |-> mumps_c_updates]

-----------------------------------------------------------------------------
(* The layout builder *)

\* a < b on Python strings: by code point, a proper prefix first.
str_lt(a, b) ==
    \/ \E i \in 1..Len(a) :
          /\ i <= Len(b)
          /\ \A j \in 1..(i - 1) : a[j] = b[j]
          /\ a[i] < b[i]
    \/ /\ Len(a) < Len(b)
       /\ \A j \in 1..Len(a) : a[j] = b[j]

RECURSIVE insert_sorted(_, _)
insert_sorted(s, x) ==
    IF Len(s) = 0 THEN <<x>>
    ELSE IF str_lt(x, Head(s)) THEN <<x>> \o s
    ELSE <<Head(s)>> \o insert_sorted(Tail(s), x)

\* list.sort() of a list of strings
RECURSIVE sort(_)
sort(s) == IF Len(s) = 0 THEN <<>>
           ELSE insert_sorted(sort(SubSeq(s, 1, Len(s) - 1)), s[Len(s)])

\* list(d.keys()) of a dict given by its items
keys(items) == [k \in 1..Len(items) |-> items[k][1]]

\* d[key]
getitem(items, key) ==
    items[CHOOSE k \in 1..Len(items) : items[k][1] = key][2]

\* [k for k, _ in f]
FieldNames(f) == [k \in 1..Len(f) |-> f[k][1]]

\* fk.index(name): the first position of name (ValueError when absent)
index(fk, name) ==
    CHOOSE i \in 1..Len(fk) : fk[i] = name /\ \A j \in 1..(i - 1) : fk[j] # name

\* A planted fault: new fields are spliced in at idx, in front of the target.
apply_update_insert_before(f, uf, idx) ==
    CASE uf.op = "replace" ->
            [f EXCEPT ![idx] = <<uf.name, uf.type>>]
      [] uf.op = "delete" ->
            SubSeq(f, 1, idx - 1) \o SubSeq(f, idx + 1, Len(f))
      [] uf.op = "new_after" ->
            SubSeq(f, 1, idx - 1) \o uf.new \o SubSeq(f, idx, Len(f))
      [] OTHER -> f

\* One pass of the loop body of update_fields: the list after update uf.
\* idx is the position of uf's target in f.
apply_update(f, uf, idx) ==
    CASE uf.op = "replace" ->
            [f EXCEPT ![idx] = <<uf.name, uf.type>>]
      [] uf.op = "delete" ->
            SubSeq(f, 1, idx - 1) \o SubSeq(f, idx + 1, Len(f))
      [] uf.op = "new_after" /\ uf.is_list ->
            SubSeq(f, 1, idx) \o uf.new \o SubSeq(f, idx + 1, Len(f))
      [] uf.op = "new_after" /\ ~uf.is_list ->
            SubSeq(f, 1, idx) \o <<uf.new[1]>> \o SubSeq(f, idx + 1, Len(f))
      [] OTHER -> f

\* A planted fault: an update whose target is absent is skipped.
RECURSIVE update_fields_skip_missing(_, _)
update_fields_skip_missing(f, update_f) ==
    IF Len(update_f) = 0 THEN [ok |-> TRUE, f |-> f]
    ELSE LET uf == Head(update_f)
             fk == FieldNames(f)
         IN  IF \A k \in 1..Len(fk) : fk[k] # uf.name
             THEN update_fields_skip_missing(f, Tail(update_f))
             ELSE update_fields_skip_missing(
                      apply_update(f, uf, index(fk, uf.name)), Tail(update_f))

\* update_fields(f, update_f): ok is FALSE when fk.index raised ValueError,
\* and f is then the list as the failing update found it.
RECURSIVE update_fields(_, _)
update_fields(f, update_f) ==
    IF Len(update_f) = 0 THEN [ok |-> TRUE, f |-> f]
    ELSE LET uf == Head(update_f)
             fk == FieldNames(f)
         IN  IF \A k \in 1..Len(fk) : fk[k] # uf.name
             THEN [ok |-> FALSE, f |-> f]
             ELSE update_fields(apply_update(f, uf, index(fk, uf.name)),
                                Tail(update_f))

\* The check of the version against the declared supported range.
version_supported(vnum) ==
    /\ vnum >= version_to_int(MIN_SUPPORTED_VERSION)
    /\ vnum <= version_to_int(MAX_SUPPORTED_VERSION)

\* for ukey in update_keys: break at the first key above vnum, else apply
\* its group.  applied lists the keys whose groups were applied, in order,
\* and left is what the list object that fields names holds when the loop
\* is left, by its end, by break or by the exception.
RECURSIVE apply_groups(_, _, _, _, _)
apply_groups(updates, update_keys, vnum, fields, applied) ==
    IF Len(update_keys) = 0
    THEN [status |-> "ok", fields |-> fields, applied |-> applied,
          left |-> fields]
    ELSE LET ukey == Head(update_keys)
         IN  IF version_to_int(ukey) > vnum
             THEN [status |-> "ok", fields |-> fields, applied |-> applied,
                   left |-> fields]
             ELSE LET r == update_fields(fields, getitem(updates, ukey))
                  IN  IF ~r.ok
                      THEN [status |-> "ValueError", fields |-> <<>>,
                            applied |-> applied, left |-> r.f]
                      ELSE apply_groups(updates, Tail(update_keys), vnum,
                                        r.f, Append(applied, ukey))

\* The list object that the global mumps_c_fields names.  The lists that
\* resolutions create are numbered from 1.
BaseList == 0

\* A planted fault: fields = mumps_c_fields, another name for the same list.
copy_alias(l, fresh) == [obj |-> BaseList, items |-> l]

\* mumps_c_fields.copy(): a new list object with the same items
copy(l, fresh) == [obj |-> fresh, items |-> l]

\* get_mumps_c_fields(version) with registry as the module globals, fresh
\* being the number of the list object it creates.  update_fields changes
\* its list in place and returns it, so that obj is the list object the
\* result names and left what that object holds when the function is left.
get_mumps_c_fields_run(registry, version, fresh) ==
    LET update_keys == sort(keys(registry.updates))
        vnum == version_to_int(version)
    IN  IF ~version_supported(vnum)
        THEN [status |-> "UnsupportedVersion", fields |-> <<>>,
              applied |-> <<>>, obj |-> BaseList, left |-> registry.fields]
        ELSE LET fields == copy(registry.fields, fresh)
                 r == apply_groups(registry.updates, update_keys, vnum,
                                   fields.items, <<>>)
             IN  [status |-> r.status, fields |-> r.fields,
                  applied |-> r.applied, obj |-> fields.obj, left |-> r.left]

\* The module globals after the run r: in-place changes of a list reach
\* every name of it.  The update lists are only read (uf[2] is spliced in
\* by value, its tuples being immutable).
registry_after(registry, r) ==
    IF r.obj = BaseList THEN [registry EXCEPT !.fields = r.left] ELSE registry

\* get_mumps_c_fields(version): how it ended and what it returned
get_mumps_c_fields_of(registry, version) ==
    LET r == get_mumps_c_fields_run(registry, version, 1)
    IN  [status |-> r.status, fields |-> r.fields, applied |-> r.applied]

get_mumps_c_fields(version) == get_mumps_c_fields_of(DeclaredRegistry, version)

-----------------------------------------------------------------------------
(* The solver session: the structure and the foreign routine *)

Instances == {"probe", "full"}

\* The entries of icntl that the class touches.  A new ctypes structure is
\* zero-filled.
IcntlZero == [i \in {0, 1, 2, 3, 13, 18, 25} |-> 0]

\* The fields of the structure that the class reads or writes.  Pointers are
\* the arrays they point to (<<>>: NULL); the two Schur buffers are numbered
\* by allocation (0: NULL).  kind "None" stands for self.struct = None, and
\* layout lists the field names of the structure's class.
NoStruct ==
    [kind |-> "None", layout |-> <<>>, sym |-> 0, par |-> 0, job |-> 0,
     icntl |-> IcntlZero, n |-> 0, nz |-> 0, nnz |-> 0, irn |-> <<>>,
     jcn |-> <<>>, a |-> <<>>, rhs |-> <<>>, infog0 |-> 0, size_schur |-> 0,
     listvar_schur |-> <<>>, schur |-> 0, lredrhs |-> 0, redrhs |-> 0,
     schur_lld |-> 0, nprow |-> 0, npcol |-> 0, mblock |-> 0, nblock |-> 0,
     aux |-> <<>>]

\* mumps_c_fields[:5] + [('aux', ctypes.c_uint8 * AUX_LENGTH)]
ProbeLayout == SubSeq(mumps_c_fields, 1, 5) \o << <<"aux", "c_uint8*16384">> >>


\* hasattr(self.struct, name)
hasattr(s, name) == \E k \in 1..Len(s.layout) : s.layout[k] = name

\* set_silent
set_silent(s) ==
    [s EXCEPT !.icntl = [@ EXCEPT ![0] = -1, ![1] = -1, ![2] = -1, ![3] = 0]]

\* The external routine dmumps_c / zmumps_c, as far as the class can see it:
\* on job -1 with the probe layout it writes its version text into the
\* scratch buffer; with the full layout it leaves a status in infog[0].
mumps_c(s, status, text) ==
    IF s.kind = "probe"
    THEN [s EXCEPT !.aux = IF s.job = -1 THEN text ELSE @]
    ELSE [s EXCEPT !.infog0 = status]

\* The Schur fields of a structure.
SchurFields(s) ==
    [size_schur |-> s.size_schur, listvar_schur |-> s.listvar_schur,
     schur |-> s.schur, lredrhs |-> s.lredrhs, redrhs |-> s.redrhs,
     schur_lld |-> s.schur_lld, nprow |-> s.nprow, npcol |-> s.npcol,
     mblock |-> s.mblock, nblock |-> s.nblock]

\* One foreign call as the observer records it: the structure handed over,
\* its job, Schur flags and Schur fields, and the status it came back with
\* (0 for the probe layout, which has no infog).
CallEvent(before, after) ==
    [ev |-> "call", inst |-> before.kind, job |-> before.job,
     icntl18 |-> before.icntl[18], icntl25 |-> before.icntl[25],
     status |-> IF after.kind = "full" THEN after.infog0 ELSE 0,
     data |-> <<>>, schur |-> SchurFields(before)]

ReadEvent(bytes) ==
    [ev |-> "read_aux", inst |-> "probe", job |-> 0, icntl18 |-> 0,
     icntl25 |-> 0, status |-> 0, data |-> bytes, schur |-> <<>>]

ArgEvent(arg) ==
    [ev |-> "arg", inst |-> "full", job |-> 0, icntl18 |-> 0, icntl25 |-> 0,
     status |-> 0, data |-> arg, schur |-> <<>>]

\* self._schur_rhs[:] = x2: the buffer written and what it holds afterwards
WriteEvent(buf) ==
    [ev |-> "write", inst |-> "full", job |-> 0, icntl18 |-> 0, icntl25 |-> 0,
     status |-> 0, data |-> [id |-> buf.id, values |-> buf.data],
     schur |-> <<>>]

\* self.struct.infog[0] < 0
status_is_error(code) == code < 0

\* A planted fault: the solve phase is put back to 0 before every call.
_mumps_call_default_phase(s, job, status) ==
    IF s.kind = "None"
    THEN [struct |-> s, trace |-> <<>>, result |-> "AttributeError", code |-> 0]
    ELSE LET s1 == [s EXCEPT !.job = job, !.icntl[25] = 0]
             s2 == mumps_c(s1, status, <<>>)
         IN  [struct |-> s2,
              trace |-> <<CallEvent(s1, s2)>>,
              result |-> IF ~hasattr(s2, "infog") THEN "AttributeError"
                         ELSE IF status_is_error(s2.infog0) THEN "RuntimeError"
                         ELSE "ok",
              code |-> IF hasattr(s2, "infog") /\ status_is_error(s2.infog0)
                       THEN s2.infog0 ELSE 0]

\* _mumps_call(job) on structure s; status is what the routine leaves.
\* With self.struct = None the first statement raises AttributeError; with
\* the probe layout the read of infog raises it after the call.
_mumps_call(s, job, status) ==
    IF s.kind = "None"
    THEN [struct |-> s, trace |-> <<>>, result |-> "AttributeError", code |-> 0]
    ELSE LET s1 == [s EXCEPT !.job = job]
             s2 == mumps_c(s1, status, <<>>)
         IN  [struct |-> s2,
              trace |-> <<CallEvent(s1, s2)>>,
              result |-> IF ~hasattr(s2, "infog") THEN "AttributeError"
                         ELSE IF status_is_error(s2.infog0) THEN "RuntimeError"
                         ELSE "ok",
              code |-> IF hasattr(s2, "infog") /\ status_is_error(s2.infog0)
                       THEN s2.infog0 ELSE 0]

-----------------------------------------------------------------------------
(* The version probe *)

\* arr[idxs] with idxs = (arr >= ord('.')) & (arr <= ord('9'))
RECURSIVE printable(_)
printable(arr) ==
    IF Len(arr) = 0 THEN <<>>
    ELSE IF Head(arr) >= Dot /\ Head(arr) <= Nine
         THEN <<Head(arr)>> \o printable(Tail(arr))
         ELSE printable(Tail(arr))

\* The last position of the run of digits that starts at i (i - 1: none).
RECURSIVE digits_end(_, _)
digits_end(s, i) ==
    IF i <= Len(s) /\ IsDigit(s[i]) THEN digits_end(s, i + 1) ELSE i - 1

\* '(\d)\.(\d+)\.(\d+)' matches at position i of s.
match_at(s, i) ==
    /\ i + 1 <= Len(s)
    /\ IsDigit(s[i])
    /\ s[i + 1] = Dot
    /\ LET e == digits_end(s, i + 2)
       IN  /\ e >= i + 2
           /\ e + 2 <= Len(s)
           /\ s[e + 1] = Dot
           /\ IsDigit(s[e + 2])

\* re.findall('^.*(\d)\.(\d+)\.(\d+).*$', s): no match gives [], and the
\* greedy '^.*' makes the one match start at the last position that matches.
findall(s) ==
    LET starts == {i \in 1..Len(s) : match_at(s, i)}
    IN  IF starts = {} THEN <<>>
        ELSE LET i == CHOOSE k \in starts : \A o \in starts : o <= k
                 e1 == digits_end(s, i + 2)
                 e2 == digits_end(s, e1 + 2)
             IN  << <<<<s[i]>>, SubSeq(s, i + 2, e1), SubSeq(s, e1 + 2, e2)>> >>

-----------------------------------------------------------------------------
(* The methods of MumpsSolver.  Each gives the object's state after the     *)
(* call, the events of the call and how the call ended ("ok" or the         *)
(* exception raised).                                                       *)

\* self._data = {}
EmptyData == [keys |-> {}, ir |-> <<>>, ic |-> <<>>, data |-> <<>>, rhs |-> <<>>]
\* no attribute _schur_rhs yet
NoSchurRhs == [set |-> FALSE, id |-> 0, len |-> 0, data |-> <<>>]

\* A planted fault: the full layout is initialised before the probe
\* instance is released.
init_order_release_last(e1, eRead, e2, eFull) == <<e1, eRead>> \o eFull \o <<e2>>

\* The order in which a completed __init__ issued its events.
init_order(e1, eRead, e2, eFull) == <<e1, eRead, e2>> \o eFull

\* MumpsSolver.__init__(is_sym) with silent = True and mem_relax = 20, with
\* the module globals as registry.
\* loaded: load_mumps_libraries succeeds; text: what the library writes into
\* the scratch buffer; status: what job -1 on the full layout leaves.
MumpsSolver_init_of(registry, is_sym, loaded, text, status) ==
    LET probe0 == [NoStruct EXCEPT !.kind = "probe",
                                    !.layout = FieldNames(ProbeLayout),
                                    !.par = 1, !.sym = 0, !.job = -1]
        probe1 == mumps_c(probe0, 0, text)
        e1     == CallEvent(probe0, probe1)
        found  == findall(printable(probe1.aux))
        probe2 == set_silent([probe1 EXCEPT !.job = -2])
        probe3 == mumps_c(probe2, 0, <<>>)
        e2     == CallEvent(probe2, probe3)
        c      == get_mumps_c_fields_of(registry, join(found[1]))
        full0  == [NoStruct EXCEPT !.kind = "full",
                                   !.layout = FieldNames(c.fields),
                                   !.par = 1, !.sym = IF is_sym THEN 2 ELSE 0,
                                   !.n = 0]
        call   == _mumps_call(full0, -1, status)
        full1  == [set_silent(call.struct) EXCEPT !.icntl[13] = 20]
        base   == [struct |-> NoStruct, data |-> data, schur_rhs |-> schur_rhs,
                   trace |-> <<>>, result |-> "ok", code |-> 0]
    IN  IF ~loaded
        THEN [base EXCEPT !.result = "OSError"]
        ELSE IF found = <<>>
        THEN [base EXCEPT !.struct = probe1,
                          !.trace = <<e1, ReadEvent(probe1.aux)>>,
                          !.result = "IndexError"]
        ELSE IF c.status # "ok"
        THEN [base EXCEPT !.struct = probe3,
                          !.trace = <<e1, ReadEvent(probe1.aux), e2>>,
                          !.result = c.status]
        ELSE IF call.result # "ok"
        THEN [base EXCEPT !.struct = call.struct,
                          !.trace = init_order(e1, ReadEvent(probe1.aux), e2,
                                               call.trace),
                          !.result = call.result,
                          !.code = call.code]
        ELSE [base EXCEPT !.struct = full1,
                          !.data = EmptyData,
                          !.trace = init_order(e1, ReadEvent(probe1.aux), e2,
                                               call.trace)]

MumpsSolver_init(is_sym, loaded, text, status) ==
    MumpsSolver_init_of(DeclaredRegistry, is_sym, loaded, text, status)

\* MumpsSolver.__del__
MumpsSolver_del(status) ==
    LET call == _mumps_call(struct, -2, status)
        base == [struct |-> struct, data |-> data, schur_rhs |-> schur_rhs,
                 trace |-> <<>>, result |-> "ok", code |-> 0]
    IN  IF struct.kind # "None"
        THEN IF call.result # "ok"
             THEN [base EXCEPT !.struct = call.struct, !.trace = call.trace,
                               !.result = call.result, !.code = call.code]
             ELSE [base EXCEPT !.struct = NoStruct, !.trace = call.trace]
        ELSE [base EXCEPT !.struct = NoStruct]

\* A planted fault: __call__ hands the structure to the routine itself, as
\* get_schur does, and never reads infog[0].
MumpsSolver_call_unchecked(job, status) ==
    LET s1 == [struct EXCEPT !.job = job]
        s2 == mumps_c(s1, status, <<>>)
    IN  IF struct.kind = "None"
        THEN [struct |-> struct, data |-> data, schur_rhs |-> schur_rhs,
              trace |-> <<>>, result |-> "AttributeError", code |-> 0]
        ELSE [struct |-> s2, data |-> data, schur_rhs |-> schur_rhs,
              trace |-> <<CallEvent(s1, s2)>>, result |-> "ok", code |-> 0]

\* MumpsSolver.__call__(job)
MumpsSolver_call(job, status) ==
    LET call == _mumps_call(struct, job, status)
    IN  [struct |-> call.struct, data |-> data, schur_rhs |-> schur_rhs,
         trace |-> call.trace, result |-> call.result, code |-> call.code]

\* A planted fault: the strict comparison cc > rr drops the diagonal.
upper_strict(rr, cc) == {i \in 1..Len(rr) : cc[i] > rr[i]}

\* cc >= rr, as the set of positions where it is true
upper(rr, cc) == {i \in 1..Len(rr) : cc[i] >= rr[i]}

\* nm.where(mask)[0]: the positions of mask in ascending order
RECURSIVE where(_)
where(mask) ==
    IF mask = {} THEN <<>>
    ELSE LET m == CHOOSE i \in mask : \A o \in mask : i <= o
         IN  <<m>> \o where(mask \ {m})

\* arr[idxs]
take(arr, idxs) == [k \in 1..Len(idxs) |-> arr[idxs[k]]]

\* A planted fault: nz takes the dimension instead of the number of entries.
set_rcd_centralized_nz_is_n(s, d, ir, ic, values, n) ==
    IF ~(Len(ir) = Len(ic) /\ Len(ic) = Len(values))
    THEN [struct |-> s, data |-> d, result |-> "AssertionError"]
    ELSE LET d1 == [d EXCEPT !.keys = @ \cup {"ir", "ic", "data"},
                             !.ir = ir, !.ic = ic, !.data = values]
         IN  IF s.kind = "None"
             THEN [struct |-> s, data |-> d1, result |-> "AttributeError"]
             ELSE [struct |-> [s EXCEPT !.n = n,
                                        !.nz = n,
                                        !.nnz = IF hasattr(s, "nnz")
                                                THEN Len(ir) ELSE @,
                                        !.irn = ir, !.jcn = ic, !.a = values],
                   data |-> d1, result |-> "ok"]

\* set_rcd_centralized(ir, ic, data, n) on structure s and dict d
set_rcd_centralized(s, d, ir, ic, values, n) ==
    IF ~(Len(ir) = Len(ic) /\ Len(ic) = Len(values))
    THEN [struct |-> s, data |-> d, result |-> "AssertionError"]
    ELSE LET d1 == [d EXCEPT !.keys = @ \cup {"ir", "ic", "data"},
                             !.ir = ir, !.ic = ic, !.data = values]
         IN  IF s.kind = "None"
             THEN [struct |-> s, data |-> d1, result |-> "AttributeError"]
             ELSE [struct |-> [s EXCEPT !.n = n,
                                        !.nz = Len(ir),
                                        !.nnz = IF hasattr(s, "nnz")
                                                THEN Len(ir) ELSE @,
                                        !.irn = ir, !.jcn = ic, !.a = values],
                   data |-> d1, result |-> "ok"]

\* set_mtx_centralized(mtx), mtx a COO matrix with zero-based row and col
set_mtx_centralized(mtx) ==
    LET rr   == [k \in 1..Len(mtx.row) |-> mtx.row[k] + 1]
        cc   == [k \in 1..Len(mtx.col) |-> mtx.col[k] + 1]
        idxs == where(upper(rr, cc))
        r    == IF struct.sym > 0
                THEN set_rcd_centralized(struct, data, take(rr, idxs),
                         take(cc, idxs), take(mtx.data, idxs), mtx.shape[1])
                ELSE set_rcd_centralized(struct, data, rr, cc, mtx.data,
                                         mtx.shape[1])
        base == [struct |-> struct, data |-> data, schur_rhs |-> schur_rhs,
                 trace |-> <<ArgEvent(mtx)>>, result |-> "ok", code |-> 0]
    IN  IF mtx.shape[1] # mtx.shape[2]
        THEN [base EXCEPT !.result = "AssertionError"]
        ELSE IF struct.kind = "None"
        THEN [base EXCEPT !.result = "AttributeError"]
        ELSE [base EXCEPT !.struct = r.struct, !.data = r.data,
                          !.result = r.result]

\* set_rhs(rhs)
set_rhs(rhs) ==
    LET d1   == [data EXCEPT !.keys = @ \cup {"rhs"}, !.rhs = rhs]
        base == [struct |-> struct, data |-> d1, schur_rhs |-> schur_rhs,
                 trace |-> <<ArgEvent(rhs)>>, result |-> "ok", code |-> 0]
    IN  IF struct.kind = "None"
        THEN [base EXCEPT !.result = "AttributeError"]
        ELSE [base EXCEPT !.struct = [struct EXCEPT !.rhs = rhs]]

\* A planted fault: get_schur without icntl[25] = 1 before its solve call.
get_schur_without_condensation(schur_list, buf, status1, status2) ==
    LET schur_size == Len(schur_list)
        rhs_buf == [set |-> TRUE, id |-> buf, len |-> schur_size, data |-> <<>>]
        s1 == [struct EXCEPT !.size_schur = schur_size,
                             !.listvar_schur = schur_list,
                             !.schur = buf,
                             !.lredrhs = schur_size,
                             !.redrhs = buf,
                             !.schur_lld = schur_size,
                             !.nprow = 1, !.npcol = 1,
                             !.mblock = 100, !.nblock = 100,
                             !.icntl[18] = 3,
                             !.job = 4]
        s2 == mumps_c(s1, status1, <<>>)
        s3 == [s2 EXCEPT !.job = 3]
        s4 == mumps_c(s3, status2, <<>>)
        base == [struct |-> struct, data |-> data, schur_rhs |-> rhs_buf,
                 trace |-> <<>>, result |-> "ok", code |-> 0]
    IN  IF struct.kind = "None"
        THEN [base EXCEPT !.result = "AttributeError"]
        ELSE [base EXCEPT !.struct = s4,
                          !.trace = <<CallEvent(s1, s2), CallEvent(s3, s4)>>]

\* get_schur(schur_list).  buf numbers the two arrays allocated by this call;
\* status1 and status2 are what jobs 4 and 3 leave.
get_schur(schur_list, buf, status1, status2) ==
    LET schur_size == Len(schur_list)
        rhs_buf == [set |-> TRUE, id |-> buf, len |-> schur_size, data |-> <<>>]
        s1 == [struct EXCEPT !.size_schur = schur_size,
                             !.listvar_schur = schur_list,
                             !.schur = buf,
                             !.lredrhs = schur_size,
                             !.redrhs = buf,
                             !.schur_lld = schur_size,
                             !.nprow = 1, !.npcol = 1,
                             !.mblock = 100, !.nblock = 100,
                             !.icntl[18] = 3,
                             !.job = 4]
        s2 == mumps_c(s1, status1, <<>>)
        s3 == [s2 EXCEPT !.icntl[25] = 1, !.job = 3]
        s4 == mumps_c(s3, status2, <<>>)
        base == [struct |-> struct, data |-> data, schur_rhs |-> rhs_buf,
                 trace |-> <<>>, result |-> "ok", code |-> 0]
    IN  IF struct.kind = "None"
        THEN [base EXCEPT !.result = "AttributeError"]
        ELSE [base EXCEPT !.struct = s4,
                          !.trace = <<CallEvent(s1, s2), CallEvent(s3, s4)>>]

\* expand_schur(x2); status is what job 3 leaves.
expand_schur(x2, status) ==
    LET written == [schur_rhs EXCEPT !.data =
                        [k \in 1..schur_rhs.len |->
                            IF Len(x2) = 1 THEN x2[1] ELSE x2[k]]]
        s1 == [struct EXCEPT !.icntl[25] = 2, !.job = 3]
        s2 == mumps_c(s1, status, <<>>)
        base == [struct |-> struct, data |-> data, schur_rhs |-> schur_rhs,
                 trace |-> <<>>, result |-> "ok", code |-> 0]
    IN  IF ~schur_rhs.set
        THEN [base EXCEPT !.result = "AttributeError"]
        ELSE IF Len(x2) # 1 /\ Len(x2) # schur_rhs.len
        THEN [base EXCEPT !.result = "ValueError"]
        ELSE IF struct.kind = "None"
        THEN [base EXCEPT !.schur_rhs = written,
                          !.trace = <<WriteEvent(written)>>,
                          !.result = "AttributeError"]
        ELSE [base EXCEPT !.schur_rhs = written,
                          !.struct = s2,
                          !.trace = <<WriteEvent(written), CallEvent(s1, s2)>>,
                          !.result = IF "rhs" \in data.keys THEN "ok"
                                     ELSE "KeyError"]

-----------------------------------------------------------------------------
(* Inputs and bounds of the two function-level specifications *)

\* Minor numbers 0..MaxMinor and patch numbers 0..MaxPatch are tried, with
\* the boundary values added by hand.
MaxMinor == 10
MaxPatch == 1
\* The longest registry tried (number of version groups).
MaxGroups == 2

\* Version numbers as (major, minor, patch).
LexLess(a, b) ==
    \/ a[1] < b[1]
    \/ a[1] = b[1] /\ a[2] < b[2]
    \/ a[1] = b[1] /\ a[2] = b[2] /\ a[3] < b[3]

VersionInputs ==
    {0, 4, 5, 999} \X {0, 2, 9, 10, 999} \X {0, 1, 9, 999}

TargetVersions ==
    {3, 4, 5, 6} \X ((0..MaxMinor) \cup {999}) \X ((0..MaxPatch) \cup {9, 10, 999})

\* A small registry: one field, four groups that each splice one field
\* after it, declared under keys whose string order is not their numeric
\* order ('5.0.10' < '5.0.9' as strings), a group that deletes the field the
\* others aim at, and two groups that name a field no layout has.
TestFields == << <<"base", "mumps_int">> >>
TestItems == <<
    <<VersionString(5, 0, 0), <<NewAfter("base", <<"A", "mumps_int">>)>> >>,
    <<VersionString(5, 1, 0), <<NewAfter("base", <<"B", "mumps_int">>)>> >>,
    <<VersionString(5, 0, 9), <<NewAfter("base", <<"C", "mumps_int">>)>> >>,
    <<VersionString(5, 0, 10), <<NewAfter("base", <<"D", "mumps_int">>)>> >>,
    <<VersionString(4, 11, 0), <<Delete("base")>> >>,
    <<VersionString(5, 2, 0), <<Replace("ghost", "mumps_real")>> >>,
    <<VersionString(5, 3, 0), <<NewAfter("base", <<"G", "mumps_int">>),
                                NewAfter("ghost", <<"H", "mumps_int">>)>> >>
>>

\* Every choice of at most MaxGroups of these groups, in every declaration
\* order.
TestRegistries ==
    UNION { { [fields |-> TestFields,
               updates |-> [k \in 1..n |-> TestItems[s[k]]]] :
              s \in { t \in [1..n -> 1..Len(TestItems)] :
                        \A i, j \in 1..n : i # j => t[i] # t[j] } } :
            n \in 0..MaxGroups }

Registries == {DeclaredRegistry} \cup TestRegistries

NoLayout == [status |-> "none", fields |-> <<>>, applied |-> <<>>]

\* The scratch buffer after the probe: the version v between other bytes.
Around(v) == <<0, 77>> \o VersionString(v[1], v[2], v[3]) \o <<0, 47>>
NoRegistry == [fields |-> <<>>, updates |-> <<>>]

VersionIdle == va = <<0, 0, 0>> /\ vb = <<0, 0, 0>> /\ vout = <<>>
LayoutIdle ==
    reg = NoRegistry /\ target = <<0, 0, 0>> /\ lout = NoLayout /\ held = <<>>

\* No scripted run: no library state is followed and no script is left.
NoRun == [lib |-> "none", todo |-> <<>>, input |-> <<>>, first |-> <<>>]
RunIdle == run = NoRun

\* Before MumpsSolver(...) is called.
InitSession ==
    /\ phase = "new"
    /\ struct = NoStruct
    /\ data = EmptyData
    /\ schur_rhs = NoSchurRhs
    /\ trace = <<>>
    /\ outcome = [op |-> "none", result |-> "ok", code |-> 0]
    /\ nInit = [i \in Instances |-> 0]
    /\ nRelease = [i \in Instances |-> 0]
    /\ ncalls = 0
    /\ nalloc = 0
    /\ history = [ctor_failed |-> FALSE, job_failed |-> FALSE,
                  schur_ok |-> FALSE]
    /\ streak = [n |-> 0, releases |-> 0]
    /\ rank = -1

-----------------------------------------------------------------------------
(* SpecVersion: version_to_int applied to two version strings *)

InitVersion ==
    /\ va \in VersionInputs
    /\ vb \in VersionInputs
    /\ vout = <<>>
    /\ LayoutIdle
    /\ InitSession
    /\ RunIdle

Convert ==
    /\ vout = <<>>
    /\ vout' = <<version_to_int(VersionString(va[1], va[2], va[3])),
                 version_to_int(VersionString(vb[1], vb[2], vb[3]))>>
    /\ UNCHANGED <<va, vb, layoutVars, sessionVars, run>>

NextVersion == Convert

SpecVersion == InitVersion /\ [][NextVersion]_vars

-----------------------------------------------------------------------------
(* SpecLayout: get_mumps_c_fields applied to a registry and a version *)

InitLayout ==
    /\ reg \in Registries
    /\ target \in TargetVersions
    /\ lout = NoLayout
    /\ held = <<>>
    /\ VersionIdle
    /\ InitSession
    /\ RunIdle

Resolve ==
    /\ lout = NoLayout
    /\ lout' = get_mumps_c_fields_of(
                   reg, VersionString(target[1], target[2], target[3]))
    /\ UNCHANGED <<reg, target, held, versionVars, sessionVars, run>>

-----------------------------------------------------------------------------
(* SpecDelta: update_fields applied to a field list and one update *)

\* The longest field list tried.
MaxFields == 3

DeltaNames == {"p", "q", "r", "s"}

\* Field lists with pairwise distinct names, as every resolved layout has.
DeltaFieldLists ==
    UNION { { [k \in 1..n |-> <<t[k], "mumps_int">>] :
              t \in { u \in [1..n -> DeltaNames] :
                        \A i, j \in 1..n : i # j => u[i] # u[j] } } :
            n \in 1..MaxFields }

\* Every kind of update aimed at the field called name.
DeltasAt(name) ==
    { Replace(name, "mumps_real"),
      Delete(name),
      NewAfter(name, <<"x", "mumps_int8">>),
      NewAfterList(name, <<<<"x", "mumps_int8">>, <<"y", "mumps_pint">>>>) }

\* A field list and one update whose target is in it.
DeltaCases ==
    UNION { { [fields |-> f, updates |-> << <<VersionString(4, 10, 0), <<uf>> >> >>] :
              uf \in UNION { DeltasAt(f[k][1]) : k \in 1..Len(f) } } :
            f \in DeltaFieldLists }

InitDelta ==
    /\ reg \in DeltaCases
    /\ target = <<0, 0, 0>>
    /\ lout = NoLayout
    /\ held = <<>>
    /\ VersionIdle
    /\ InitSession
    /\ RunIdle

\* update_fields(f, [uf])
ApplyDelta ==
    /\ lout = NoLayout
    /\ LET r == update_fields(reg.fields, reg.updates[1][2])
       IN  lout' = [status |-> IF r.ok THEN "ok" ELSE "ValueError",
                    fields |-> r.f, applied |-> <<>>]
    /\ UNCHANGED <<reg, target, held, versionVars, sessionVars, run>>

NextDelta == ApplyDelta

SpecDelta == InitDelta /\ [][NextDelta]_vars

-----------------------------------------------------------------------------
(* Claims about the layout builder *)

\* The keys of S in ascending order of version_to_int.
RECURSIVE NumericAscending(_)
NumericAscending(S) ==
    IF S = {} THEN <<>>
    ELSE LET m == CHOOSE k \in S :
                      \A o \in S : version_to_int(k) <= version_to_int(o)
         IN  <<m>> \o NumericAscending(S \ {m})

TargetInt == target[1] * 1000000 + target[2] * 1000 + target[3]

\* C7: for every registry and target version, a resolution that succeeds has
\* applied exactly the groups whose declaring version is numerically at most
\* the target, in ascending numeric order of their versions, whatever the
\* declaration order.
C7_GroupsInNumericOrder ==
    lout.status = "ok" =>
        lout.applied =
            NumericAscending({ reg.updates[k][1] : k \in
                { i \in 1..Len(reg.updates) :
                    version_to_int(reg.updates[i][1]) <= TargetInt } })

InSupportedRange(t) ==
    /\ ~LexLess(t, <<4, 10, 0>>)
    /\ ~LexLess(<<5, 7, 999>>, t)

Distinct(s) == \A i, j \in 1..Len(s) : i # j => s[i] # s[j]

\* C8: for every version in the supported range 4.10.0 .. 5.7.999, resolving
\* the declared base layout with the declared updates succeeds (no update
\* names a field absent from the running list when it is applied) and the
\* resulting field names are pairwise distinct.
C8_DeclaredLayoutsResolve ==
    (reg = DeclaredRegistry /\ lout # NoLayout /\ InSupportedRange(target)) =>
        /\ lout.status = "ok"
        /\ Distinct(FieldNames(lout.fields))

\* A 5.7.x layout was resolved: 'instance_number' was deleted and spliced in
\* again after 'metis_options'.
C8_Witness ==
    /\ reg = DeclaredRegistry
    /\ target = <<5, 7, 1>>
    /\ lout.status = "ok"
    /\ Len(lout.applied) = 5
    /\ \E k \in 2..Len(lout.fields) :
          /\ lout.fields[k][1] = "instance_number"
          /\ lout.fields[k - 1][1] = "metis_options"

\* C15: one update changes the field list at its target only.  A replace
\* keeps the target's position and name and substitutes its type; a delete
\* removes the target and nothing else; an insertion puts the new field or
\* fields, in their own order, right after the target.  Every other field
\* keeps its name, its type and its place among the others.
C15_DeltaChangesTargetOnly ==
    (lout # NoLayout /\ reg \in DeltaCases) =>
        LET f == reg.fields
            uf == reg.updates[1][2][1]
            g == lout.fields
            idx == CHOOSE k \in 1..Len(f) : f[k][1] = uf.name
            m == Len(uf.new)
        IN  /\ lout.status = "ok"
            /\ uf.op = "replace" =>
                  /\ Len(g) = Len(f)
                  /\ g[idx] = <<uf.name, uf.type>>
                  /\ \A k \in 1..Len(f) : k # idx => g[k] = f[k]
            /\ uf.op = "delete" =>
                  /\ Len(g) = Len(f) - 1
                  /\ \A k \in 1..(idx - 1) : g[k] = f[k]
                  /\ \A k \in idx..Len(g) : g[k] = f[k + 1]
            /\ uf.op = "new_after" =>
                  /\ Len(g) = Len(f) + m
                  /\ \A k \in 1..idx : g[k] = f[k]
                  /\ \A j \in 1..m : g[idx + j] = uf.new[j]
                  /\ \A k \in (idx + 1)..Len(f) : g[k + m] = f[k]

\* Two fields were spliced in after the middle one of three.
C15_Witness ==
    /\ reg \in DeltaCases
    /\ lout.status = "ok"
    /\ FieldNames(reg.fields) = <<"p", "q", "r">>
    /\ FieldNames(lout.fields) = <<"p", "q", "x", "y", "r">>

\* Whether one of the updates, applied in turn to a layout with the field
\* names S, names a field that is not there when its turn comes.
RECURSIVE Dangling(_, _)
Dangling(S, updates) ==
    IF Len(updates) = 0 THEN FALSE
    ELSE LET uf == Head(updates)
         IN  \/ uf.name \notin S
             \/ Dangling(CASE uf.op = "delete" -> S \ {uf.name}
                            [] uf.op = "new_after" ->
                                  S \cup {uf.new[k][1] : k \in 1..Len(uf.new)}
                            [] OTHER -> S,
                          Tail(updates))

\* The updates of the groups that resolution takes up for the target: those
\* of the keys, in the order tried, before the first one above the target.
RECURSIVE Attempted(_, _)
Attempted(items, ks) ==
    IF Len(ks) = 0 \/ version_to_int(Head(ks)) > TargetInt THEN <<>>
    ELSE getitem(items, Head(ks)) \o Attempted(items, Tail(ks))

\* C16: resolution fails with the layout-resolution error (ValueError, the
\* one error resolution raises) and returns no layout exactly when a replace,
\* delete or insertion names a field that is absent from the running list
\* when it is applied, a field deleted earlier included; and a construction
\* that meets this failure is aborted before job -1 is issued on any full
\* layout.
C16_DanglingTargetAborts ==
    (lout # NoLayout /\ reg \in Registries /\ InSupportedRange(target)) =>
        LET names == {reg.fields[k][1] : k \in 1..Len(reg.fields)}
            dangling == Dangling(names,
                            Attempted(reg.updates, sort(keys(reg.updates))))
        IN  /\ dangling <=> lout.status = "ValueError"
            /\ ~dangling <=> lout.status = "ok"
            /\ dangling => lout.fields = <<>>
            /\ (dangling /\ outcome.op = "__init__") =>
                  /\ outcome.result = "ValueError"
                  /\ phase = "failed"
                  /\ nInit["full"] = 0
                  /\ \A k \in 1..Len(trace) :
                        ~(trace[k].ev = "call" /\ trace[k].inst = "full")

\* A group deleted 'base', the next group aimed at it, and the construction
\* that followed was aborted after the probe.
C16_Witness ==
    /\ Len(reg.updates) = 2
    /\ reg.updates[1][2] = <<NewAfter("base", <<"A", "mumps_int">>)>>
    /\ reg.updates[2][2] = <<Delete("base")>>
    /\ target = <<5, 0, 1>>
    /\ lout.status = "ValueError"
    /\ lout.applied = <<VersionString(4, 11, 0)>>
    /\ outcome.op = "__init__"
    /\ outcome.result = "ValueError"
    /\ nInit = [i \in Instances |-> IF i = "probe" THEN 1 ELSE 0]

\* C19: get_mumps_c_fields leaves the registry as it was, the base field
\* list and every update group with the field lists it carries: whatever
\* versions it is called with, resolving a version again gives the same
\* field list, and a list returned earlier is not changed by a later call.
C19_ResolutionLeavesRegistry ==
    [][/\ reg' = reg
       /\ \A k \in 1..Len(held) : held'[k] = held[k]
       /\ \A i, j \in 1..Len(held') :
             held'[i].version = held'[j].version =>
                /\ held'[i].status = held'[j].status
                /\ held'[i].fields = held'[j].fields
      ]_vars

\* On the declared registry, 5.0.0 was resolved and then 5.7.3, the two
\* lists differ and the first is still the 5.0.0 layout.
C19_Witness ==
    /\ reg = DeclaredRegistry
    /\ Len(held) = 2
    /\ held[1].version = <<5, 0, 0>>
    /\ held[2].version = <<5, 7, 3>>
    /\ held[1].status = "ok"
    /\ held[2].status = "ok"
    /\ held[1].fields # held[2].fields
    /\ held[1].fields = get_mumps_c_fields(VersionString(5, 0, 0)).fields

-----------------------------------------------------------------------------
(* Claims about version_to_int *)

\* C9: version_to_int('major.minor.patch') is major*10^6 + minor*10^3 + patch
\* and, for components in 0..999, it orders versions as the lexicographic
\* order on (major, minor, patch) does; so 5.2.1 > 4.10.0 and 5.10.0 > 5.2.9.
C9_VersionToIntOrder ==
    vout # <<>> =>
        /\ vout[1] = va[1] * 1000000 + va[2] * 1000 + va[3]
        /\ vout[2] = vb[1] * 1000000 + vb[2] * 1000 + vb[3]
        /\ LexLess(va, vb) <=> (vout[1] < vout[2])
        /\ (va = <<5, 2, 1>> /\ vb = <<4, 10, 0>>) => vout[1] > vout[2]
        /\ (va = <<5, 10, 0>> /\ vb = <<5, 2, 9>>) => vout[1] > vout[2]

\* '5.10.0' and '5.2.9' were converted: the minor number 10 outweighs 2.
C9_Witness ==
    /\ va = <<5, 10, 0>>
    /\ vb = <<5, 2, 9>>
    /\ vout = <<5010000, 5002009>>

-----------------------------------------------------------------------------
(* Spec: the life of one MumpsSolver object *)

\* The foreign calls one object may issue in a run of the model.
MaxCalls == 6
\* The get_schur calls (buffer allocations) in a run of the model.
MaxAllocs == 2
\* The largest number of matrix entries tried by SpecSubmit.
MaxEntries == 2

\* What the routine may leave in infog[0]: an error, success, a warning.
Statuses == {-10, 0, 1}
JobCodes == {-2, -1, 1, 2, 3, 4, 5, 6}

\* What the library may write into the scratch buffer: its version between
\* other bytes of the structure (NUL, 'M', '/'), or no version at all.
AuxSamples ==
    { Around(v) : v \in { <<4, 9, 0>>, <<4, 10, 0>>, <<5, 7, 999>>,
                          <<5, 8, 0>> } }
    \cup { <<52, 46, 77, 49, 48, 46, 0, 48>>,  \* '4.M10.' NUL '0': 4.10.0 once filtered
           <<0, 77, 53, 46, 50, 0>>,           \* '5.2' only
           <<53, 46, 50, 46, 49, 47, 52, 46, 49, 48, 46, 48>>,  \* '5.2.1/4.10.0'
           <<>> }

\* COO matrices with zero-based indices.
LifecycleMatrices ==
    { [shape |-> <<2, 2>>, row |-> <<0, 1, 1>>, col |-> <<1, 0, 1>>,
       data |-> <<11, 12, 13>>],
      [shape |-> <<1, 2>>, row |-> <<0>>, col |-> <<1>>, data |-> <<11>>] }
AllMatrices ==
    UNION { { [shape |-> <<n, n>>,
               row |-> [k \in 1..m |-> e[k][1]],
               col |-> [k \in 1..m |-> e[k][2]],
               data |-> [k \in 1..m |-> 10 + k]] :
              e \in [1..m -> (0..(n - 1)) \X (0..(n - 1))] } :
            n \in 1..2, m \in 0..MaxEntries }
RhsSamples == { <<1, 2>> }
SchurLists == { <<2>>, <<1, 2>> }
PartialSolutions == { <<5>>, <<5, 6>> }

CountJob(tr, inst, job) ==
    Cardinality({k \in 1..Len(tr) :
        tr[k].ev = "call" /\ tr[k].inst = inst /\ tr[k].job = job})
NumCalls(tr) == Cardinality({k \in 1..Len(tr) : tr[k].ev = "call"})

\* A get_schur that returned after two foreign calls, both of which left a
\* non-negative status.
SchurCompleted(op, r) ==
    /\ op = "get_schur"
    /\ r.result = "ok"
    /\ Len(r.trace) = 2
    /\ \A k \in 1..Len(r.trace) : r.trace[k].status >= 0

\* The object and the observer after operation op ended as r says.
\* limit bounds the foreign calls of a run.
CommitWithin(limit, op, r, nextPhase, teardown, allocs) ==
    /\ ncalls + NumCalls(r.trace) <= limit
    /\ phase' = nextPhase
    /\ struct' = r.struct
    /\ data' = r.data
    /\ schur_rhs' = r.schur_rhs
    /\ trace' = r.trace
    /\ outcome' = [op |-> op, result |-> r.result, code |-> r.code]
    /\ nInit' = [i \in Instances |-> nInit[i] + CountJob(r.trace, i, -1)]
    /\ nRelease' = [i \in Instances |-> nRelease[i] + CountJob(r.trace, i, -2)]
    /\ ncalls' = ncalls + NumCalls(r.trace)
    /\ nalloc' = nalloc + allocs
    /\ history' =
          [ctor_failed |-> history.ctor_failed
                              \/ (op = "__init__" /\ r.result # "ok"),
           job_failed |-> history.job_failed
                             \/ (op = "__call__" /\ r.result = "RuntimeError"),
           schur_ok |-> history.schur_ok \/ SchurCompleted(op, r)]
    /\ streak' =
          IF teardown
          THEN [n |-> IF streak.n >= 2 THEN 2 ELSE streak.n + 1,
                releases |-> streak.releases
                               + CountJob(r.trace, "probe", -2)
                               + CountJob(r.trace, "full", -2)]
          ELSE [n |-> 0, releases |-> 0]

CommitSession(op, r, nextPhase, teardown, allocs) ==
    CommitWithin(MaxCalls, op, r, nextPhase, teardown, allocs)

\* The same for every method but __init__, which alone sets self.rank.
Commit(op, r, nextPhase, teardown, allocs) ==
    /\ CommitSession(op, r, nextPhase, teardown, allocs)
    /\ rank' = rank
    /\ UNCHANGED <<versionVars, layoutVars, run>>

\* solver = MumpsSolver(is_sym=...) in a process whose rank in the
\* communicator is one of ranks; self.rank is set once job -1 has returned.
ConstructAs(ranks) ==
    /\ phase = "new"
    /\ \E is_sym \in BOOLEAN, loaded \in BOOLEAN, text \in AuxSamples,
          status \in Statuses, comm_rank \in ranks :
          LET r == MumpsSolver_init(is_sym, loaded, text, status)
          IN  /\ CommitSession("__init__", r,
                     IF r.result = "ok" THEN "alive" ELSE "failed", FALSE, 0)
              /\ rank' = IF r.result = "ok" THEN comm_rank ELSE rank
              /\ UNCHANGED <<versionVars, layoutVars, run>>

\* A run on one process: the communicator has the root rank only.
Construct == ConstructAs({0})

\* solver.__del__() called by the holder of the object
Teardown ==
    /\ phase = "alive"
    /\ \E status \in Statuses :
          Commit("__del__", MumpsSolver_del(status), "alive", TRUE, 0)

\* The object is dropped and collected: the interpreter runs __del__ once
\* and ignores what it raises.
Discard ==
    /\ phase \in {"alive", "failed"}
    /\ \E status \in Statuses :
          Commit("collect", MumpsSolver_del(status), "dead", TRUE, 0)

\* solver(job)
Invoke ==
    /\ phase = "alive"
    /\ \E job \in JobCodes, status \in Statuses :
          Commit("__call__", MumpsSolver_call(job, status), "alive", FALSE, 0)

\* solver.set_mtx_centralized(mtx)
SubmitMatrix ==
    /\ phase = "alive"
    /\ \E mtx \in LifecycleMatrices :
          Commit("set_mtx_centralized", set_mtx_centralized(mtx), "alive",
                 FALSE, 0)

\* solver.set_rhs(rhs)
SubmitRhs ==
    /\ phase = "alive"
    /\ \E rhs \in RhsSamples :
          Commit("set_rhs", set_rhs(rhs), "alive", FALSE, 0)

\* solver.get_schur(schur_list)
GetSchur ==
    /\ phase = "alive"
    /\ nalloc < MaxAllocs
    /\ \E schur_list \in SchurLists, status1 \in Statuses,
          status2 \in Statuses :
          Commit("get_schur",
                 get_schur(schur_list, nalloc + 1, status1, status2),
                 "alive", FALSE, 1)

\* solver.expand_schur(x2)
ExpandSchur ==
    /\ phase = "alive"
    /\ \E x2 \in PartialSolutions, status \in Statuses :
          Commit("expand_schur", expand_schur(x2, status), "alive", FALSE, 0)

Init == InitSession /\ VersionIdle /\ LayoutIdle /\ RunIdle

Next ==
    \/ Construct
    \/ Teardown
    \/ Discard
    \/ Invoke
    \/ SubmitMatrix
    \/ SubmitRhs
    \/ GetSchur
    \/ ExpandSchur

Spec == Init /\ [][Next]_vars

-----------------------------------------------------------------------------
(* SpecLayout: resolution of a layout from a registry, and the construction  *)
(* of an object on that registry                                            *)

\* MumpsSolver() with reg as the module globals, against a library that
\* reports the version target.
ConstructOnRegistry ==
    /\ phase = "new"
    /\ lout # NoLayout
    /\ LET r == MumpsSolver_init_of(reg, FALSE, TRUE, Around(target), 0)
       IN  /\ CommitSession("__init__", r,
                  IF r.result = "ok" THEN "alive" ELSE "failed", FALSE, 0)
           /\ rank' = IF r.result = "ok" THEN 0 ELSE rank
    /\ UNCHANGED <<versionVars, layoutVars, run>>

NextLayout ==
    \/ Resolve
    \/ ConstructOnRegistry

SpecLayout == InitLayout /\ [][NextLayout]_vars

-----------------------------------------------------------------------------
(* SpecRegistry: get_mumps_c_fields called again and again on one registry, *)
(* the caller keeping every list it was given                               *)

\* The most calls made.
MaxResolves == 2

ResolveTargets ==
    { <<4, 10, 0>>, <<5, 0, 0>>, <<5, 0, 9>>, <<5, 2, 0>>, <<5, 7, 3>>,
      <<5, 8, 0>> }

InitRegistry ==
    /\ reg \in Registries
    /\ target = <<0, 0, 0>>
    /\ lout = NoLayout
    /\ held = <<>>
    /\ VersionIdle
    /\ InitSession
    /\ RunIdle

\* layout = get_mumps_c_fields(version), the caller keeping layout.  A list
\* kept from an earlier call shows the changes made to its object.
ResolveAgain ==
    /\ Len(held) < MaxResolves
    /\ \E t \in ResolveTargets :
          LET r == get_mumps_c_fields_run(
                       reg, VersionString(t[1], t[2], t[3]), Len(held) + 1)
              seen == [k \in 1..Len(held) |->
                          IF held[k].status = "ok" /\ held[k].obj = r.obj
                          THEN [held[k] EXCEPT !.fields = r.left]
                          ELSE held[k]]
          IN  /\ target' = t
              /\ lout' = [status |-> r.status, fields |-> r.fields,
                          applied |-> r.applied]
              /\ reg' = registry_after(reg, r)
              /\ held' = Append(seen, [version |-> t, status |-> r.status,
                                       obj |-> r.obj, fields |-> r.fields])
    /\ UNCHANGED <<versionVars, sessionVars, run>>

NextRegistry == ResolveAgain

SpecRegistry == InitRegistry /\ [][NextRegistry]_vars

-----------------------------------------------------------------------------
(* SpecSchur: one object on a 5.2.0 library, used for Schur complements and *)
(* plain jobs in any order                                                   *)

\* The foreign calls in a run, the three of the construction included.
MaxSchurCalls == 7

CommitSchur(op, r, nextPhase, allocs) ==
    /\ CommitWithin(MaxSchurCalls, op, r, nextPhase, FALSE, allocs)
    /\ rank' = rank
    /\ UNCHANGED <<versionVars, layoutVars, run>>

SchurConstruct ==
    /\ phase = "new"
    /\ \E status \in Statuses :
          LET r == MumpsSolver_init(FALSE, TRUE, Around(<<5, 2, 0>>), status)
          IN  /\ CommitWithin(MaxSchurCalls, "__init__", r,
                     IF r.result = "ok" THEN "alive" ELSE "failed", FALSE, 0)
              /\ rank' = IF r.result = "ok" THEN 0 ELSE rank
              /\ UNCHANGED <<versionVars, layoutVars, run>>

SchurInvoke ==
    /\ phase = "alive"
    /\ \E job \in JobCodes, status \in Statuses :
          CommitSchur("__call__", MumpsSolver_call(job, status), "alive", 0)

SchurSubmitRhs ==
    /\ phase = "alive"
    /\ \E rhs \in RhsSamples :
          CommitSchur("set_rhs", set_rhs(rhs), "alive", 0)

SchurGet ==
    /\ phase = "alive"
    /\ nalloc < MaxAllocs
    /\ \E schur_list \in SchurLists, status1 \in Statuses,
          status2 \in Statuses :
          CommitSchur("get_schur",
                      get_schur(schur_list, nalloc + 1, status1, status2),
                      "alive", 1)

SchurExpand ==
    /\ phase = "alive"
    /\ \E x2 \in PartialSolutions, status \in Statuses :
          CommitSchur("expand_schur", expand_schur(x2, status), "alive", 0)

SchurTeardown ==
    /\ phase = "alive"
    /\ \E status \in Statuses :
          CommitSchur("__del__", MumpsSolver_del(status), "alive", 0)

NextSchur ==
    \/ SchurConstruct
    \/ SchurInvoke
    \/ SchurSubmitRhs
    \/ SchurGet
    \/ SchurExpand
    \/ SchurTeardown

SpecSchur == Init /\ [][NextSchur]_vars

-----------------------------------------------------------------------------
(* SpecSubmit: construction followed by submissions of any small matrix *)

SubmitAnyMatrix ==
    /\ phase = "alive"
    /\ \E mtx \in AllMatrices :
          Commit("set_mtx_centralized", set_mtx_centralized(mtx), "alive",
                 FALSE, 0)

\* The ranks of a communicator of two processes; 0 is the root.
Ranks == {0, 1}

\* solver = MumpsSolver(is_sym=...) on any process of the communicator
ConstructInWorld == ConstructAs(Ranks)

NextSubmit ==
    \/ ConstructInWorld
    \/ SubmitAnyMatrix
    \/ SubmitRhs

SpecSubmit == Init /\ [][NextSubmit]_vars

-----------------------------------------------------------------------------
(* SpecJobs: the library follows the job table.  One object is constructed,  *)
(* given a matrix and a right-hand side and driven through jobs 1, 2, 3; a   *)
(* second object is then constructed the same way, given the same matrix    *)
(* and right-hand side and driven through job 6.                             *)

\* The phases a job code stands for.
JobPhases(job) ==
    CASE job = 1 -> <<"analyze">>
      [] job = 2 -> <<"factorize">>
      [] job = 3 -> <<"solve">>
      [] job = 4 -> <<"analyze", "factorize">>
      [] job = 5 -> <<"factorize", "solve">>
      [] job = 6 -> <<"analyze", "factorize", "solve">>
      [] OTHER -> <<>>

\* The state a phase starts from and the state it leads to.
PhaseFrom(ph) ==
    CASE ph = "analyze" -> "Configured"
      [] ph = "factorize" -> "Analyzed"
      [] OTHER -> "Factorized"
PhaseTo(ph) ==
    CASE ph = "analyze" -> "Analyzed"
      [] ph = "factorize" -> "Factorized"
      [] OTHER -> "Solved"

\* A matrix the library cannot factorize: fewer entries than rows.
Singular(s) == s.nz < s.n

\* The library runs the phases in turn.  A phase asked for from the wrong
\* state is refused with status -3; factorizing a singular matrix fails with
\* status -10; either ends the job in the state reached so far.
RECURSIVE RunPhases(_, _, _)
RunPhases(lib, phases, s) ==
    IF Len(phases) = 0 THEN [lib |-> lib, status |-> 0]
    ELSE IF PhaseFrom(Head(phases)) # lib THEN [lib |-> lib, status |-> -3]
    ELSE IF Head(phases) = "factorize" /\ Singular(s)
         THEN [lib |-> lib, status |-> -10]
    ELSE RunPhases(PhaseTo(Head(phases)), Tail(phases), s)

\* The job table: what the library in state lib does with structure s.
LibStep(lib, s) ==
    CASE s.job = -1 ->
            IF lib = "Uninitialized" THEN [lib |-> "Configured", status |-> 0]
            ELSE [lib |-> lib, status |-> -3]
      [] s.job = -2 ->
            IF lib # "Released" THEN [lib |-> "Released", status |-> 0]
            ELSE [lib |-> lib, status |-> -3]
      [] OTHER -> RunPhases(lib, JobPhases(s.job), s)

\* The steps of a script: a submission, or solver(job).
GiveMatrix == [op |-> "matrix", job |-> 0]
GiveRhs == [op |-> "rhs", job |-> 0]
Job(job) == [op |-> "job", job |-> job]
StepwiseScript == <<GiveMatrix, GiveRhs, Job(1), Job(2), Job(3)>>
SingleScript == <<GiveMatrix, GiveRhs, Job(6)>>

\* What the two objects are built from and given.
RunInputs ==
    [is_sym : BOOLEAN, mtx : AllMatrices, rhs : RhsSamples,
     text : {Around(<<4, 10, 0>>), Around(<<5, 7, 999>>)}]

\* The object as its holder and the library see it once a script has ended:
\* the structure apart from the job code last written, the buffers held, the
\* state of the library's instance, and how the last operation ended.
Snapshot ==
    [struct |-> [struct EXCEPT !.job = 0], data |-> data,
     schur_rhs |-> schur_rhs, lib |-> run.lib, status |-> struct.infog0,
     result |-> outcome.result, code |-> outcome.code]

\* MumpsSolver(is_sym=...): the first object, or the second, built as the
\* first was.  Job -1 on the full layout takes the library's instance from
\* Uninitialized to Configured.
ScriptedConstruct ==
    /\ phase = "new"
    /\ \E input \in (IF run = NoRun THEN RunInputs ELSE {run.input}) :
          LET answer == LibStep("Uninitialized", [NoStruct EXCEPT !.job = -1])
              r == MumpsSolver_init(input.is_sym, TRUE, input.text,
                                    answer.status)
          IN  /\ CommitSession("__init__", r,
                     IF r.result = "ok" THEN "alive" ELSE "failed", FALSE, 0)
              /\ rank' = IF r.result = "ok" THEN 0 ELSE rank
              /\ run' = [lib |-> answer.lib,
                         todo |-> IF run = NoRun THEN StepwiseScript
                                  ELSE run.todo,
                         input |-> input,
                         first |-> run.first]
    /\ UNCHANGED <<versionVars, layoutVars>>

\* The next step of the script is solver.set_mtx_centralized(mtx).
ScriptedSubmitMatrix ==
    /\ phase = "alive"
    /\ Len(run.todo) > 0 /\ Head(run.todo).op = "matrix"
    /\ CommitSession("set_mtx_centralized", set_mtx_centralized(run.input.mtx),
                     "alive", FALSE, 0)
    /\ rank' = rank
    /\ run' = [run EXCEPT !.todo = Tail(@)]
    /\ UNCHANGED <<versionVars, layoutVars>>

\* The next step of the script is solver.set_rhs(rhs).
ScriptedSubmitRhs ==
    /\ phase = "alive"
    /\ Len(run.todo) > 0 /\ Head(run.todo).op = "rhs"
    /\ CommitSession("set_rhs", set_rhs(run.input.rhs), "alive", FALSE, 0)
    /\ rank' = rank
    /\ run' = [run EXCEPT !.todo = Tail(@)]
    /\ UNCHANGED <<versionVars, layoutVars>>

\* The next step of the script is solver(job).  The library answers to the
\* structure it is handed; a job that raises ends the script.
ScriptedInvoke ==
    /\ phase = "alive"
    /\ Len(run.todo) > 0 /\ Head(run.todo).op = "job"
    /\ LET job == Head(run.todo).job
           handed == MumpsSolver_call(job, 0).trace
           answer == IF Len(handed) = 0 THEN [lib |-> run.lib, status |-> 0]
                     ELSE LibStep(run.lib,
                                  [struct EXCEPT !.job = handed[1].job])
           r == MumpsSolver_call(job, answer.status)
       IN  /\ CommitSession("__call__", r, "alive", FALSE, 0)
           /\ run' = [run EXCEPT !.lib = answer.lib,
                                  !.todo = IF r.result = "ok" THEN Tail(@)
                                           ELSE <<>>]
    /\ rank' = rank
    /\ UNCHANGED <<versionVars, layoutVars>>

\* The first script has ended: what it left is noted, and a second object,
\* not yet constructed, takes the first one's place.
Retire ==
    /\ phase = "alive"
    /\ run.todo = <<>>
    /\ run.first = <<>>
    /\ run' = [lib |-> "Uninitialized", todo |-> SingleScript,
               input |-> run.input, first |-> <<Snapshot>>]
    /\ phase' = "new"
    /\ struct' = NoStruct
    /\ data' = EmptyData
    /\ schur_rhs' = NoSchurRhs
    /\ trace' = <<>>
    /\ outcome' = [op |-> "none", result |-> "ok", code |-> 0]
    /\ nInit' = [i \in Instances |-> 0]
    /\ nRelease' = [i \in Instances |-> 0]
    /\ ncalls' = 0
    /\ nalloc' = 0
    /\ history' = [ctor_failed |-> FALSE, job_failed |-> FALSE,
                   schur_ok |-> FALSE]
    /\ streak' = [n |-> 0, releases |-> 0]
    /\ rank' = -1
    /\ UNCHANGED <<versionVars, layoutVars>>

NextJobs ==
    \/ ScriptedConstruct
    \/ ScriptedSubmitMatrix
    \/ ScriptedSubmitRhs
    \/ ScriptedInvoke
    \/ Retire

SpecJobs == Init /\ [][NextJobs]_vars

-----------------------------------------------------------------------------
(* Claims about the session *)

\* C1: an operation that calls the foreign routine after construction
\* (solver(job), get_schur, expand_schur) and finds a negative status in
\* infog[0] after any of its calls ends with the error carrying that status;
\* it never returns normally.
C1_NegativeStatusRaises ==
    outcome.op \in {"__call__", "get_schur", "expand_schur"} =>
        \A k \in 1..Len(trace) :
            (trace[k].ev = "call" /\ trace[k].status < 0) =>
                /\ outcome.result = "RuntimeError"
                /\ outcome.code = trace[k].status

\* C2: teardown is idempotent: in a run of two or more consecutive teardowns
\* the second and later ones raise nothing, and the whole run issues job -2
\* at most once, whatever status the first release left.
C2_TeardownIdempotent ==
    streak.n >= 2 =>
        /\ outcome.result = "ok"
        /\ streak.releases <= 1

\* C3: when an object whose construction failed, or on which a job raised,
\* has been collected, every instance that was initialised by a job -1 has
\* received exactly one job -2.
C3_ReleasedExactlyOnce ==
    (phase = "dead" /\ (history.ctor_failed \/ history.job_failed)) =>
        \A i \in Instances : nInit[i] >= 1 => nRelease[i] = 1

\* C4: once job -2 has been issued on the object's full structure, no later
\* operation of the object calls the foreign routine again.
C4_NoCallAfterRelease ==
    [][nRelease["full"] >= 1 => ncalls' = ncalls]_vars

IsCall(e, inst, job) == e.ev = "call" /\ e.inst = inst /\ e.job = job

\* C5: a construction that succeeds has called the foreign routine exactly
\* three times: job -1 on the probe layout, job -2 on the probe layout, job -1
\* on the full layout, in this order, and has read the scratch buffer between
\* the first call and the second.
C5_ConstructionCallOrder ==
    (outcome.op = "__init__" /\ outcome.result = "ok") =>
        /\ Len(trace) = 4
        /\ IsCall(trace[1], "probe", -1)
        /\ trace[2].ev = "read_aux"
        /\ IsCall(trace[3], "probe", -2)
        /\ IsCall(trace[4], "full", -1)
        /\ struct.kind = "full"

C5_Witness ==
    /\ outcome.op = "__init__"
    /\ outcome.result = "ok"
    /\ phase = "alive"
    /\ ncalls = 3
    /\ nInit = [i \in Instances |-> 1]
    /\ nRelease = [i \in Instances |-> IF i = "probe" THEN 1 ELSE 0]

\* The version numbers the probe found in the bytes it read.
ProbedVersion(bytes) ==
    LET f == findall(printable(bytes))
    IN  IF f = <<>> THEN <<>>
        ELSE <<int(f[1][1]), int(f[1][2]), int(f[1][3])>>

\* C6: when the bytes read from the scratch buffer hold no text of the shape
\* major.minor.patch, or hold a version below 4.10.0 or above 5.7.999,
\* construction fails with the unsupported-version error and job -1 is never
\* issued on a full layout.
C6_UnsupportedVersionRejected ==
    (outcome.op = "__init__" /\ Len(trace) >= 2) =>
        LET v == ProbedVersion(trace[2].data)
        IN  (v = <<>> \/ ~InSupportedRange(v)) =>
                /\ phase = "failed"
                /\ outcome.result = "UnsupportedVersion"
                /\ \A k \in 1..Len(trace) :
                      ~(trace[k].ev = "call" /\ trace[k].inst = "full")
                /\ nInit["full"] = 0

IsUpper(e) == e[2] >= e[1]

\* C10: set_mtx_centralized on a symmetric solver (sym = 2) submits exactly
\* the entries whose one-based column is at least their one-based row, in
\* their original order with row, column and value aligned, and nz is the
\* number of entries with zero-based col >= row; a non-symmetric solver
\* (sym = 0) submits every entry unchanged.
C10_SymmetricSubmission ==
    (outcome.op = "set_mtx_centralized" /\ outcome.result = "ok") =>
        LET mtx == trace[1].data
            entries == [k \in 1..Len(mtx.row) |->
                           <<mtx.row[k] + 1, mtx.col[k] + 1, mtx.data[k]>>]
            submitted == [k \in 1..Len(struct.irn) |->
                             <<struct.irn[k], struct.jcn[k], struct.a[k]>>]
        IN  /\ Len(struct.jcn) = Len(struct.irn)
            /\ Len(struct.a) = Len(struct.irn)
            /\ struct.nz = Len(struct.irn)
            /\ struct.n = mtx.shape[1]
            /\ struct.sym \in {0, 2}
            /\ struct.sym = 2 =>
                  /\ submitted = SelectSeq(entries, IsUpper)
                  /\ struct.nz = Cardinality({k \in 1..Len(mtx.row) :
                                                 mtx.col[k] >= mtx.row[k]})
            /\ struct.sym = 0 => submitted = entries

\* A symmetric solver was given an entry below the diagonal and one on it,
\* and kept only the second.
C10_Witness ==
    /\ outcome.op = "set_mtx_centralized"
    /\ outcome.result = "ok"
    /\ struct.sym = 2
    /\ trace[1].data.row = <<1, 1>>
    /\ trace[1].data.col = <<0, 1>>
    /\ struct.irn = <<2>>
    /\ struct.jcn = <<2>>
    /\ struct.a = <<12>>

\* C11: on a Session whose rank is not the root rank 0, submit_matrix and
\* submit_rhs are no-ops: they leave the whole local structure (n, nz, nnz,
\* irn, jcn, a, rhs among its fields) and the buffers the Session holds
\* (self._data) as they were.
C11_NonRootSubmitIsNoOp ==
    [][(rank > 0 /\ outcome'.op \in {"set_mtx_centralized", "set_rhs"}) =>
          (struct' = struct /\ data' = data)]_vars

\* C12: a get_schur that returns has made exactly two foreign calls: job 4
\* with icntl[18] = 3 and every Schur field set (size, variable list, dense
\* buffer, condensed right-hand side buffer, 1x1 grid, block size 100), then
\* job 3 with icntl[25] = 1.  An expand_schur that reaches the library has
\* written the partial solution into the condensed right-hand side buffer and
\* then made exactly one foreign call, job 3 with icntl[25] = 2.  Neither
\* makes any other foreign call.
C12_SchurCallSequence ==
    /\ outcome.op = "get_schur" =>
          /\ NumCalls(trace) = (IF outcome.result = "ok" THEN 2 ELSE 0)
          /\ outcome.result = "ok" =>
                /\ Len(trace) = 2
                /\ IsCall(trace[1], "full", 4)
                /\ trace[1].icntl18 = 3
                /\ trace[1].schur.size_schur = Len(trace[1].schur.listvar_schur)
                /\ trace[1].schur.size_schur >= 1
                /\ trace[1].schur.schur # 0
                /\ trace[1].schur.redrhs # 0
                /\ trace[1].schur.redrhs = schur_rhs.id
                /\ trace[1].schur.lredrhs = trace[1].schur.size_schur
                /\ trace[1].schur.schur_lld = trace[1].schur.size_schur
                /\ trace[1].schur.nprow = 1 /\ trace[1].schur.npcol = 1
                /\ trace[1].schur.mblock = 100 /\ trace[1].schur.nblock = 100
                /\ IsCall(trace[2], "full", 3)
                /\ trace[2].icntl25 = 1
                /\ trace[2].schur = trace[1].schur
    /\ outcome.op = "expand_schur" =>
          /\ NumCalls(trace) <= 1
          /\ outcome.result \in {"ok", "KeyError"} <=> NumCalls(trace) = 1
          /\ NumCalls(trace) = 1 =>
                /\ Len(trace) = 2
                /\ trace[1].ev = "write"
                /\ Len(trace[1].data.values) = schur_rhs.len
                /\ trace[1].data.values = schur_rhs.data
                /\ IsCall(trace[2], "full", 3)
                /\ trace[2].icntl25 = 2

\* get_schur returned and expand_schur, given one value per Schur variable,
\* wrote them and called the library.
C12_Witness ==
    /\ outcome.op = "expand_schur"
    /\ outcome.result = "ok"
    /\ Len(trace) = 2
    /\ trace[1].data.values = <<5, 6>>
    /\ trace[2].schur.listvar_schur = <<1, 2>>
    /\ trace[2].icntl18 = 3

\* C13: with the library following the job table, an object driven through
\* invoke(1), invoke(2), invoke(3) and an object constructed the same way,
\* given the same matrix and right-hand side and driven through invoke(6),
\* end alike: the same structure (but for the job code last written), the
\* same buffers held, the same library state, the same final status and the
\* same result of the last call.
C13_StepwiseEqualsSingleJob ==
    (phase = "alive" /\ run.first # <<>> /\ run.todo = <<>>) =>
        Snapshot = run.first[1]

\* Both scripts ran to the end on a matrix the library could factorize, and
\* both left the library's instance Solved.
C13_Witness ==
    /\ phase = "alive"
    /\ run.first # <<>>
    /\ run.todo = <<>>
    /\ run.first[1].lib = "Solved"
    /\ run.lib = "Solved"
    /\ struct.job = 6
    /\ struct.nz = 2
    /\ outcome.result = "ok"

\* The first run of the shape digit '.' digits '.' digits in s: its three
\* numerals, or <<>> when s has none.
first_run(s) ==
    LET starts == {i \in 1..Len(s) : match_at(s, i)}
    IN  IF starts = {} THEN <<>>
        ELSE LET i == CHOOSE k \in starts : \A o \in starts : k <= o
                 e1 == digits_end(s, i + 2)
                 e2 == digits_end(s, e1 + 2)
             IN  <<<<s[i]>>, SubSeq(s, i + 2, e1), SubSeq(s, e1 + 2, e2)>>

\* C14: whenever the bytes of the scratch buffer that lie in '.'..'9' hold
\* at least one run of the shape digit '.' digits '.' digits, the full layout
\* is the one resolved for the first such run (and construction is rejected
\* exactly when that version is).
C14_FirstVersionRunUsed ==
    (outcome.op = "__init__" /\ Len(trace) >= 2
        /\ first_run(printable(trace[2].data)) # <<>>) =>
        LET c == get_mumps_c_fields(join(first_run(printable(trace[2].data))))
        IN  IF c.status = "ok"
            THEN /\ outcome.result \in {"ok", "RuntimeError"}
                 /\ struct.kind = "full"
                 /\ struct.layout = FieldNames(c.fields)
            ELSE /\ outcome.result = c.status
                 /\ nInit["full"] = 0

\* C17: set_mtx_centralized and set_rhs make no foreign call and change, in
\* the structure, only the submission fields.  set_mtx_centralized leaves
\* rhs alone and, when it succeeds, sets n to the dimension, nz (and nnz when
\* the layout has it) to the number of entries submitted, and irn, jcn and a
\* to the arrays of that length that self._data keeps; set_rhs changes rhs
\* alone, to the array that self._data keeps.  The job field, icntl, infog
\* and the Schur fields, and the Schur right-hand-side buffer, stay as they
\* were.
C17_SubmitChangesSubmissionFieldsOnly ==
    [][(outcome'.op \in {"set_mtx_centralized", "set_rhs"}) =>
          /\ ncalls' = ncalls
          /\ \A k \in 1..Len(trace') : trace'[k].ev # "call"
          /\ schur_rhs' = schur_rhs
          /\ struct'.job = struct.job
          /\ struct'.icntl = struct.icntl
          /\ struct'.infog0 = struct.infog0
          /\ SchurFields(struct') = SchurFields(struct)
          /\ [struct' EXCEPT !.n = struct.n, !.nz = struct.nz,
                             !.nnz = struct.nnz, !.irn = struct.irn,
                             !.jcn = struct.jcn, !.a = struct.a,
                             !.rhs = struct.rhs] = struct
          /\ outcome'.op = "set_rhs" =>
                /\ [struct' EXCEPT !.rhs = struct.rhs] = struct
                /\ [data' EXCEPT !.keys = data.keys, !.rhs = data.rhs] = data
                /\ outcome'.result = "ok" =>
                      /\ struct'.rhs = trace'[1].data
                      /\ "rhs" \in data'.keys
                      /\ data'.rhs = struct'.rhs
          /\ outcome'.op = "set_mtx_centralized" =>
                /\ struct'.rhs = struct.rhs
                /\ [data' EXCEPT !.keys = data.keys, !.ir = data.ir,
                                 !.ic = data.ic, !.data = data.data] = data
                /\ outcome'.result # "ok" => struct' = struct
                /\ outcome'.result = "ok" =>
                      LET mtx == trace'[1].data
                          count == Cardinality({k \in 1..Len(mtx.row) :
                                      \/ struct.sym = 0
                                      \/ mtx.col[k] >= mtx.row[k]})
                      IN  /\ struct'.n = mtx.shape[1]
                          /\ struct'.nz = count
                          /\ struct'.nnz = IF hasattr(struct, "nnz")
                                           THEN count ELSE struct.nnz
                          /\ Len(struct'.irn) = count
                          /\ Len(struct'.jcn) = count
                          /\ Len(struct'.a) = count
                          /\ {"ir", "ic", "data"} \subseteq data'.keys
                          /\ data'.ir = struct'.irn
                          /\ data'.ic = struct'.jcn
                          /\ data'.data = struct'.a
      ]_vars

\* A matrix of dimension two with three entries was submitted to a
\* structure that has nnz and already carries Schur fields and a right-hand
\* side.
C17_Witness ==
    /\ outcome.op = "set_mtx_centralized"
    /\ outcome.result = "ok"
    /\ hasattr(struct, "nnz")
    /\ struct.nz > 0
    /\ struct.nnz = struct.nz
    /\ struct.n # struct.nz
    /\ struct.size_schur > 0
    /\ struct.icntl[18] = 3
    /\ struct.rhs # <<>>

\* C18: expand_schur makes its foreign call only on an object on which an
\* earlier get_schur returned with both of its calls ending in a status that
\* is not negative, and the buffer it writes the partial solution into is the
\* one the structure carries as redrhs in that call.
C18_ExpandOnlyAfterSchur ==
    [][(outcome'.op = "expand_schur"
          /\ \E k \in 1..Len(trace') : trace'[k].ev = "call") =>
          /\ history.schur_ok
          /\ \A k \in 1..Len(trace') :
                trace'[k].ev = "call" =>
                   /\ k > 1
                   /\ trace'[k - 1].ev = "write"
                   /\ trace'[k - 1].data.id = trace'[k].schur.redrhs
      ]_vars

Calls(tr) == {k \in 1..Len(tr) : tr[k].ev = "call"}

\* C20: the Schur flags stay as get_schur and expand_schur leave them.  No
\* other method changes icntl[18] or icntl[25]; once icntl[18] is 3 every
\* later foreign call on the structure is issued with icntl[18] = 3, any job
\* of __call__ included; get_schur issues its second call with icntl[25] = 1
\* and expand_schur its call with icntl[25] = 2, and from then on every call
\* is issued with icntl[25] = 2, job 3 of __call__ included, until a
\* get_schur sets it to 1 again.
C20_SchurFlagsAreSticky ==
    [][/\ (struct'.kind = "full" /\ struct.kind = "full"
            /\ outcome'.op \notin {"get_schur", "expand_schur"}) =>
             /\ struct'.icntl[18] = struct.icntl[18]
             /\ struct'.icntl[25] = struct.icntl[25]
       /\ (struct.kind = "full" /\ struct.icntl[18] = 3) =>
             /\ \A k \in Calls(trace') : trace'[k].icntl18 = 3
             /\ struct'.kind = "full" => struct'.icntl[18] = 3
       /\ (struct.kind = "full" /\ struct.icntl[25] = 2
            /\ outcome'.op # "get_schur") =>
             /\ \A k \in Calls(trace') : trace'[k].icntl25 = 2
             /\ struct'.kind = "full" => struct'.icntl[25] = 2
       /\ (outcome'.op = "get_schur" /\ Calls(trace') # {}) =>
             /\ Len(trace') = 2
             /\ trace'[1].icntl18 = 3
             /\ trace'[2].icntl18 = 3
             /\ trace'[2].icntl25 = 1
             /\ struct'.icntl[18] = 3
             /\ struct'.icntl[25] = 1
       /\ (outcome'.op = "expand_schur" /\ Calls(trace') # {}) =>
             /\ \A k \in Calls(trace') : trace'[k].icntl25 = 2
             /\ struct'.icntl[25] = 2
      ]_vars

\* After a get_schur and an expand_schur, job 3 of __call__ was issued with
\* icntl[18] = 3 and icntl[25] = 2.
C20_Witness ==
    /\ outcome.op = "__call__"
    /\ history.schur_ok
    /\ Len(trace) = 1
    /\ trace[1].ev = "call"
    /\ trace[1].job = 3
    /\ trace[1].icntl18 = 3
    /\ trace[1].icntl25 = 2

====
